---- MODULE Spec2Model ----
(***************************************************************************)
(* A model of stopwatch.h: the rdtscp_clock tick arithmetic, the timer     *)
(* (an immutable expiry with the queries done and remaining), the single   *)
(* invocation timing function time and the sampler sample<N>.              *)
(*                                                                         *)
(* rdtscp_clock::rep is std::uint64_t: a time_point and a duration are     *)
(* tick counts in 0 .. 2^64-1 and + and - on them wrap.  The model keeps   *)
(* the wrap and scales the width: Modulus stands for 2^64.                 *)
(*                                                                         *)
(* timer, time and sample are templates over a Clock.  The only clock the  *)
(* header defines is rdtscp_clock, and they are modelled over it; the      *)
(* sequence of values its now() returns is either non-decreasing or        *)
(* arbitrary (a counter read on another core), chosen in Init.             *)
(***************************************************************************)
EXTENDS Integers, Sequences, FiniteSets, Bags

\* Bounds of the model.
Modulus == 8     \* number of values of rep (stands for 2^64)
MaxN == 3        \* largest sample count N

VARIABLES
  clock,      \* the value the last Clock::now() returned
  monotonic,  \* whether successive reads of this clock never decrease
  \* ---- timer ----
  tKind,      \* which constructor built the timer: "none", "duration", "time_point"
  tArg,       \* the constructor's argument (a duration or a time_point)
  createdAt,  \* the clock value the duration constructor read
  expiry,     \* timer::expiry
  q,          \* the last query: operation, its now, whether the caller supplied it, the result
  \* ---- time / sample ----
  pc,         \* position in time / sample
  op,         \* the entry point the caller used: "time" or "sample"
  N,          \* the template argument N of sample
  failAt,     \* the callable raises on this invocation (0: it never raises)
  i,          \* the loop index of sample
  samples,    \* the array samples of sample
  start,      \* the local start of time
  ret,        \* the value time returned last
  calls,      \* invocations of the callable in this run
  reads,      \* clock reads in this run
  trace,      \* the run's events in order: "start", "call", "end", "sort"
  measured,   \* the durations time returned in this run, in order of measurement
  result      \* the sequences sample handed back to its caller (none or one)

timerVars == <<tKind, tArg, createdAt, expiry, q>>
sampleVars == <<pc, op, N, failAt, i, samples, start, ret, calls, reads, trace, measured, result>>
vars == <<clock, monotonic, tKind, tArg, createdAt, expiry, q,
          pc, op, N, failAt, i, samples, start, ret, calls, reads, trace, measured, result>>

----------------------------------------------------------------------------
\* rdtscp_clock: rep, duration, time_point

\* The values of rdtscp_clock::rep.
Rep == 0 .. (Modulus - 1)

\* time_point + duration on an unsigned rep.
Add(tp, d) == (tp + d) % Modulus

\* time_point - time_point on an unsigned rep.
Sub(a, b) == (a - b + Modulus) % Modulus

\* The value of an element of std::array<duration, N> before it is assigned.
Indeterminate == 0 - 1

\* Clock::now() may return v: any counter value, and one not below the last
\* read when the clock is monotonic.
now(v) == v \in Rep /\ (monotonic => v >= clock)

NoQuery == [op |-> "none", supplied |-> FALSE, now |-> 0, done |-> FALSE, remaining |-> 0]

Init ==
  /\ clock \in Rep
  /\ monotonic \in BOOLEAN
  /\ tKind = "none"
  /\ tArg = 0
  /\ createdAt = 0
  /\ expiry = 0
  /\ q = NoQuery
  /\ pc = "idle"
  /\ op = "none"
  /\ N = 0
  /\ failAt = 0
  /\ i = 0
  /\ samples = <<>>
  /\ start = 0
  /\ ret = 0
  /\ calls = 0
  /\ reads = 0
  /\ trace = <<>>
  /\ measured = <<>>
  /\ result = {}

----------------------------------------------------------------------------
\* timer

\* explicit timer(const duration duration): expiry(Clock::now() + duration)
timer_duration(d, v) ==
  /\ tKind = "none"
  /\ now(v)
  /\ clock' = v
  /\ createdAt' = v
  /\ expiry' = Add(v, d)
  /\ tKind' = "duration"
  /\ tArg' = d
  /\ UNCHANGED <<monotonic, q>>
  /\ UNCHANGED sampleVars

\* explicit timer(const time_point expiry): expiry(expiry)
timer_time_point(t) ==
  /\ tKind = "none"
  /\ expiry' = t
  /\ tKind' = "time_point"
  /\ tArg' = t
  /\ UNCHANGED <<clock, monotonic, createdAt, q>>
  /\ UNCHANGED sampleVars

\* done with the comparison turned round
done_reversed(e, n) == n <= e

\* done with a strict comparison
done_strict(e, n) == n > e

\* return now >= expiry
done(e, n) == n >= e

\* remaining that saturates at zero once the expiry is past
remaining_saturating(e, n) == IF n > e THEN 0 ELSE e - n

\* return expiry - now
remaining(e, n) == Sub(e, n)

\* timer.done(now): the caller supplies now
DoneAt(n) ==
  /\ tKind # "none"
  /\ q' = [op |-> "done", supplied |-> TRUE, now |-> n, done |-> done(expiry, n), remaining |-> 0]
  /\ UNCHANGED <<clock, monotonic, tKind, tArg, createdAt, expiry>>
  /\ UNCHANGED sampleVars

\* done() that anchors the deadline to the moment of this first use
DoneNow_reanchor(v) ==
  /\ tKind # "none"
  /\ now(v)
  /\ clock' = v
  /\ expiry' = IF tKind = "duration" /\ q.op = "none" THEN Add(v, tArg) ELSE expiry
  /\ q' = [op |-> "done", supplied |-> FALSE, now |-> v, done |-> done(expiry', v), remaining |-> 0]
  /\ UNCHANGED <<monotonic, tKind, tArg, createdAt>>
  /\ UNCHANGED sampleVars

\* timer.done(): now defaults to a fresh Clock::now()
DoneNow(v) ==
  /\ tKind # "none"
  /\ now(v)
  /\ clock' = v
  /\ q' = [op |-> "done", supplied |-> FALSE, now |-> v, done |-> done(expiry, v), remaining |-> 0]
  /\ UNCHANGED <<monotonic, tKind, tArg, createdAt, expiry>>
  /\ UNCHANGED sampleVars

\* timer.remaining(now): the caller supplies now
RemainingAt(n) ==
  /\ tKind # "none"
  /\ q' = [op |-> "remaining", supplied |-> TRUE, now |-> n, done |-> FALSE,
           remaining |-> remaining(expiry, n)]
  /\ UNCHANGED <<clock, monotonic, tKind, tArg, createdAt, expiry>>
  /\ UNCHANGED sampleVars

\* timer.remaining(): now defaults to a fresh Clock::now()
RemainingNow(v) ==
  /\ tKind # "none"
  /\ now(v)
  /\ clock' = v
  /\ q' = [op |-> "remaining", supplied |-> FALSE, now |-> v, done |-> FALSE,
           remaining |-> remaining(expiry, v)]
  /\ UNCHANGED <<monotonic, tKind, tArg, createdAt, expiry>>
  /\ UNCHANGED sampleVars

NextTimer ==
  \/ \E d \in Rep, v \in Rep : timer_duration(d, v)
  \/ \E t \in Rep : timer_time_point(t)
  \/ \E n \in Rep : DoneAt(n)
  \/ \E v \in Rep : DoneNow(v)
  \/ \E n \in Rep : RemainingAt(n)
  \/ \E v \in Rep : RemainingNow(v)

SpecTimer == Init /\ [][NextTimer]_vars

----------------------------------------------------------------------------
\* time and sample

RECURSIVE Insert(_, _)
\* x placed before the first element of the ascending sequence s that is not below it
Insert(x, s) ==
  IF s = <<>> THEN <<x>>
  ELSE IF x <= Head(s) THEN <<x>> \o s
  ELSE <<Head(s)>> \o Insert(x, Tail(s))

\* a sort that leaves the sequence as it is
std_sort_skipped(s) == s

RECURSIVE std_sort(_)
\* std::sort(samples.begin(), samples.end()): the elements in ascending order
std_sort(s) == IF s = <<>> THEN <<>> ELSE Insert(Head(s), std_sort(Tail(s)))

\* A caller enters time<Clock>(function).
CallTime(k) ==
  /\ pc \in {"idle", "returned", "threw"}
  /\ op' = "time"
  /\ N' = 0
  /\ failAt' = k
  /\ i' = 0
  /\ samples' = <<>>
  /\ start' = 0
  /\ ret' = 0
  /\ calls' = 0
  /\ reads' = 0
  /\ trace' = <<>>
  /\ measured' = <<>>
  /\ result' = {}
  /\ pc' = "time_start"
  /\ UNCHANGED <<clock, monotonic>>
  /\ UNCHANGED timerVars

\* A caller enters sample<N, Clock>(function): std::array<duration, N> samples; i = 0
CallSample(n, k) ==
  /\ pc \in {"idle", "returned", "threw"}
  /\ op' = "sample"
  /\ N' = n
  /\ failAt' = k
  /\ i' = 0
  /\ samples' = [j \in 1 .. n |-> Indeterminate]
  /\ start' = 0
  /\ ret' = 0
  /\ calls' = 0
  /\ reads' = 0
  /\ trace' = <<>>
  /\ measured' = <<>>
  /\ result' = {}
  /\ pc' = "loop"
  /\ UNCHANGED <<clock, monotonic>>
  /\ UNCHANGED timerVars

\* a loop whose test is i <= N
LoopTest_inclusive ==
  /\ pc = "loop"
  /\ pc' = IF i <= N THEN "time_start" ELSE "sort"
  /\ UNCHANGED <<clock, monotonic, op, N, failAt, i, samples, start, ret, calls, reads,
                 trace, measured, result>>
  /\ UNCHANGED timerVars

\* for (...; i < N; ...): enter the body or leave the loop
LoopTest ==
  /\ pc = "loop"
  /\ pc' = IF i < N THEN "time_start" ELSE "sort"
  /\ UNCHANGED <<clock, monotonic, op, N, failAt, i, samples, start, ret, calls, reads,
                 trace, measured, result>>
  /\ UNCHANGED timerVars

\* const auto start = Clock::now();
TimeStart(v) ==
  /\ pc = "time_start"
  /\ now(v)
  /\ clock' = v
  /\ start' = v
  /\ reads' = reads + 1
  /\ trace' = Append(trace, "start")
  /\ pc' = "time_call"
  /\ UNCHANGED <<monotonic, op, N, failAt, i, samples, ret, calls, measured, result>>
  /\ UNCHANGED timerVars

\* function() inside a handler that swallows what it raises
TimeCall_swallowing ==
  /\ pc = "time_call"
  /\ calls' = calls + 1
  /\ trace' = Append(trace, "call")
  /\ pc' = "time_end"
  /\ UNCHANGED <<clock, monotonic, op, N, failAt, i, samples, start, ret, reads,
                 measured, result>>
  /\ UNCHANGED timerVars

\* function(); an exception it raises leaves time, and sample, which catch nothing
TimeCall ==
  /\ pc = "time_call"
  /\ calls' = calls + 1
  /\ trace' = Append(trace, "call")
  /\ pc' = IF calls + 1 = failAt THEN "threw" ELSE "time_end"
  /\ UNCHANGED <<clock, monotonic, op, N, failAt, i, samples, start, ret, reads,
                 measured, result>>
  /\ UNCHANGED timerVars

\* return start - Clock::now();
TimeEnd_swapped(v) ==
  /\ pc = "time_end"
  /\ now(v)
  /\ clock' = v
  /\ reads' = reads + 1
  /\ ret' = Sub(start, v)
  /\ measured' = Append(measured, Sub(start, v))
  /\ trace' = Append(trace, "end")
  /\ pc' = IF op = "time" THEN "returned" ELSE "store"
  /\ UNCHANGED <<monotonic, op, N, failAt, i, samples, start, calls, result>>
  /\ UNCHANGED timerVars

\* return Clock::now() - start;
TimeEnd(v) ==
  /\ pc = "time_end"
  /\ now(v)
  /\ clock' = v
  /\ reads' = reads + 1
  /\ ret' = Sub(v, start)
  /\ measured' = Append(measured, Sub(v, start))
  /\ trace' = Append(trace, "end")
  /\ pc' = IF op = "time" THEN "returned" ELSE "store"
  /\ UNCHANGED <<monotonic, op, N, failAt, i, samples, start, calls, result>>
  /\ UNCHANGED timerVars

\* a store that keeps the filled part of the array sorted after every sample
LoopStore_sorting ==
  /\ pc = "store"
  /\ samples' = std_sort(SubSeq(samples, 1, i) \o <<ret>>) \o SubSeq(samples, i + 2, N)
  /\ i' = i + 1
  /\ pc' = "loop"
  /\ UNCHANGED <<clock, monotonic, op, N, failAt, start, ret, calls, reads, trace,
                 measured, result>>
  /\ UNCHANGED timerVars

\* samples[i] = time<Clock>(function); ++i
LoopStore ==
  /\ pc = "store"
  /\ samples' = [samples EXCEPT ![i + 1] = ret]
  /\ i' = i + 1
  /\ pc' = "loop"
  /\ UNCHANGED <<clock, monotonic, op, N, failAt, start, ret, calls, reads, trace,
                 measured, result>>
  /\ UNCHANGED timerVars

\* std::sort(samples.begin(), samples.end()); return samples;
SortReturn ==
  /\ pc = "sort"
  /\ samples' = std_sort(samples)
  /\ result' = {std_sort(samples)}
  /\ trace' = Append(trace, "sort")
  /\ pc' = "returned"
  /\ UNCHANGED <<clock, monotonic, op, N, failAt, i, start, ret, calls, reads, measured>>
  /\ UNCHANGED timerVars

NextSample ==
  \/ \E k \in 0 .. 1 : CallTime(k)
  \/ \E n \in 0 .. MaxN, k \in 0 .. MaxN : CallSample(n, k)
  \/ LoopTest
  \/ \E v \in Rep : TimeStart(v)
  \/ TimeCall
  \/ \E v \in Rep : TimeEnd(v)
  \/ LoopStore
  \/ SortReturn

SpecSample == Init /\ [][NextSample]_vars

\* The whole header.  The timer and the sampler share nothing but the clock, so
\* the properties of each are checked under its own specification.
Next == NextTimer \/ NextSample

Spec == Init /\ [][Next]_vars

----------------------------------------------------------------------------
\* Properties of the timer (checked under SpecTimer)

\* C1: every done(now), on a timer built from a duration or from a time point,
\* answers false when now is strictly before the expiry and true when now is
\* at or after it.
C1_DoneIffNotBeforeExpiry ==
  q.op = "done" =>
    /\ (q.now < expiry => q.done = FALSE)
    /\ (q.now >= expiry => q.done = TRUE)

\* A timer built from a duration was asked done(now) with now exactly its expiry.
C1_Witness ==
  /\ tKind = "duration"
  /\ q.op = "done"
  /\ q.supplied
  /\ q.now = expiry
  /\ q.done

\* C2: on a timer built from the time point t, remaining(now) is the exact
\* difference t - now for every now, a negative number of ticks when now is
\* later than t (and zero at now = t).
C2_RemainingIsExactDifference ==
  (tKind = "time_point" /\ q.op = "remaining") => q.remaining = tArg - q.now

\* C7: a timer built from a duration d has expiry = (the clock value read at
\* construction) + d in the arithmetic of rep (the exact sum whenever it fits
\* rep), no step after construction changes the expiry, and a query repeated
\* with the same now gives the same answer.
C7_ExpiryFixedAtConstruction ==
  /\ [](tKind = "duration" =>
          /\ expiry = (createdAt + tArg) % Modulus
          /\ (createdAt + tArg < Modulus => expiry = createdAt + tArg))
  /\ [][tKind # "none" => expiry' = expiry]_vars
  /\ [][(q.op # "none" /\ q'.op = q.op /\ q'.now = q.now) =>
          (q'.done = q.done /\ q'.remaining = q.remaining)]_vars

\* A timer built from a duration was queried by done() after the clock had
\* moved on from the value read at construction.
C7_Witness ==
  /\ tKind = "duration"
  /\ tArg > 0
  /\ q.op = "done"
  /\ ~q.supplied
  /\ q.now > createdAt
  /\ expiry = createdAt + tArg

\* C8: on a timer built from a duration of 0 ticks, done() with no argument
\* answers true whenever the clock value it reads is not below the one read at
\* construction, so always under a clock whose reads never decrease.
C8_ZeroDurationIsDone ==
  (tKind = "duration" /\ tArg = 0 /\ q.op = "done" /\ ~q.supplied) =>
    /\ (q.now >= createdAt => q.done)
    /\ (monotonic => q.done)

\* A timer of 0 ticks was asked done() while the clock still showed the value
\* read at construction.
C8_Witness ==
  /\ tKind = "duration"
  /\ tArg = 0
  /\ q.op = "done"
  /\ ~q.supplied
  /\ monotonic
  /\ q.now = createdAt
  /\ q.done

\* C10: over rdtscp_clock remaining(now) is never negative; for now strictly
\* after the expiry it is (expiry - now) mod 2^64, strictly positive, while
\* done(now) is true; and it is zero only at now = expiry.
C10_RemainingWrapsPastExpiry ==
  q.op = "remaining" =>
    /\ q.remaining >= 0
    /\ (q.now > expiry =>
          /\ q.remaining = Modulus - (q.now - expiry)
          /\ q.remaining > 0
          /\ done(expiry, q.now) = TRUE)
    /\ (q.remaining = 0 <=> q.now = expiry)

\* remaining(now) was asked with now strictly after the expiry.
C10_Witness ==
  /\ q.op = "remaining"
  /\ q.now > expiry
  /\ q.remaining > 0

----------------------------------------------------------------------------
\* Properties of time and sample (checked under SpecSample)

\* s is in ascending order.
Ascending(s) == \A j \in 1 .. (Len(s) - 1) : s[j] <= s[j + 1]

\* The elements of s with the number of times each occurs.
Multiset(s) ==
  [x \in {s[j] : j \in DOMAIN s} |-> Cardinality({j \in DOMAIN s : s[j] = x})]

\* The events of n measurements one after another, then the sort.
Measurements(n) ==
  [j \in 1 .. (3 * n + 1) |->
     IF j = 3 * n + 1 THEN "sort"
     ELSE IF j % 3 = 1 THEN "start"
     ELSE IF j % 3 = 2 THEN "call" ELSE "end"]

\* The callable raises during this run of sample.
Raises == failAt \in 1 .. N

\* C3: a run of sample<N> that returns hands back one sequence of exactly N
\* durations in ascending order.
C3_ReturnsNSorted ==
  (op = "sample" /\ pc = "returned") =>
    /\ result = {samples}
    /\ Len(samples) = N
    /\ Ascending(samples)

\* sample<3> returned although the first measurement was longer than the second.
C3_Witness ==
  /\ op = "sample"
  /\ pc = "returned"
  /\ N = MaxN
  /\ measured[1] > measured[2]

\* C4: when the callable raises on its k-th invocation, the run ends with the
\* failure and hands back no sequence, the callable has been invoked exactly k
\* times, and the clock read that would end the k-th measurement is not made.
C4_FailurePropagates ==
  /\ (failAt >= 1 => calls <= failAt)
  /\ ((failAt >= 1 /\ calls = failAt) => pc = "threw")
  /\ (pc = "threw" =>
        /\ result = {}
        /\ calls = failAt
        /\ reads = 2 * failAt - 1
        /\ Len(measured) = failAt - 1
        /\ trace[Len(trace)] = "call")
  /\ ((op = "sample" /\ Raises) => pc \notin {"sort", "returned"})

\* The callable raised on the second of three invocations of sample<3>.
C4_Witness ==
  /\ op = "sample"
  /\ pc = "threw"
  /\ N = 3
  /\ failAt = 2

\* C5: sample<0> returns the empty sequence without invoking the callable and
\* without reading the clock.
C5_ZeroSamples ==
  (op = "sample" /\ N = 0) =>
    /\ calls = 0
    /\ reads = 0
    /\ pc \in {"loop", "sort", "returned"}
    /\ (pc = "returned" => result = {<<>>})

\* sample<0> returned, with a callable that would have raised when invoked.
C5_Witness ==
  /\ op = "sample"
  /\ N = 0
  /\ pc = "returned"
  /\ failAt = 1

\* C6: time reads the clock (start), invokes the callable once, reads the
\* clock again (end), in this order, and returns end - start in the arithmetic
\* of rep: the exact difference, which is not negative, whenever end is not
\* below start, so always under a clock whose reads never decrease.
C6_TimeIsEndMinusStart ==
  /\ (pc = "returned" /\ op = "time") =>
        /\ trace = <<"start", "call", "end">>
        /\ calls = 1
        /\ reads = 2
  /\ (pc = "store" \/ (pc = "returned" /\ op = "time")) =>
        /\ Len(trace) >= 3
        /\ SubSeq(trace, Len(trace) - 2, Len(trace)) = <<"start", "call", "end">>
        /\ (clock >= start => (ret = clock - start /\ ret >= 0))
        /\ (clock < start => ret = clock - start + Modulus)
        /\ (monotonic => (ret = clock - start /\ ret >= 0))

\* time returned a positive duration under a clock whose reads never decrease.
C6_Witness ==
  /\ op = "time"
  /\ pc = "returned"
  /\ monotonic
  /\ ret > 0

\* C9: when the callable never raises, sample<N> makes N measurements one
\* after another, each a start read, one invocation and an end read; the
\* array holds them in order of measurement until the last is taken, and the
\* sequence returned is a permutation of the N measured durations.
C9_SortedAfterAllMeasured ==
  (op = "sample" /\ ~Raises) =>
    /\ (pc # "returned" =>
          /\ i = Len(measured) - (IF pc = "store" THEN 1 ELSE 0)
          /\ \A j \in 1 .. i : samples[j] = measured[j]
          /\ trace = SubSeq(Measurements(N), 1, Len(trace)))
    /\ (pc = "returned" =>
          /\ calls = N
          /\ reads = 2 * N
          /\ Len(measured) = N
          /\ trace = Measurements(N)
          /\ Multiset(samples) = Multiset(measured))

\* sample<3> returned three measurements taken out of order, two of them equal.
C9_Witness ==
  /\ op = "sample"
  /\ pc = "returned"
  /\ N = 3
  /\ failAt = 0
  /\ measured[1] > measured[2]
  /\ measured[2] = measured[3]

====
